---- MODULE Spec2Model ----
\* Model of the N-qubit stabilizer tableau simulator of
\* src/src/stabilizer_simulator.rs (gates H, S, Cx; Z-basis measurement).
EXTENDS Integers, Sequences, FiniteSets, TLC

\* Number of qubits of the simulator the client drives freely (the const
\* generic N of the source; the tests instantiate 1 and 2).
N == 3

\* Bound on the number of calls made on one simulator.
MaxSteps == 4

\* The N this simulator was instantiated with.
VARIABLE n

Qubits == 0 .. (n - 1)

Bits == [Qubits -> BOOLEAN]

AllFalse == [j \in Qubits |-> FALSE]

\* struct TableauGeneratorRow<N>
TableauGeneratorRow == [phase_is_negated : BOOLEAN, x_bits : Bits, z_bits : Bits]

MkRow(p, x, z) == [phase_is_negated |-> p, x_bits |-> x, z_bits |-> z]

IdentityRow == MkRow(FALSE, AllFalse, AllFalse)

\* `b as i32`
B2I(b) == IF b THEN 1 ELSE 0

\* bool ^ bool
Xor(a, b) == a # b

\* Rust's `%` on i32: the remainder takes the sign of the dividend.
RustRem(a, m) == IF a >= 0 THEN a % m ELSE 0 - ((0 - a) % m)

---------------------------------------------------------------------------
\* Gate engine: the body of the inner loop of apply_gate, for one row.

\* H that swaps the bits and leaves the phase alone.
HRow_NoPhaseFlip(g, q) ==
    MkRow(g.phase_is_negated,
          [g.x_bits EXCEPT ![q] = g.z_bits[q]],
          [g.z_bits EXCEPT ![q] = g.x_bits[q]])

HRow(g, q) ==
    LET gx == g.x_bits[q]
        gz == g.z_bits[q]
    IN  MkRow(Xor(g.phase_is_negated, gx /\ gz),
              [g.x_bits EXCEPT ![q] = gz],
              [g.z_bits EXCEPT ![q] = gx])

\* S that updates z_bits[q] and leaves the phase alone.
SRow_NoPhaseFlip(g, q) ==
    MkRow(g.phase_is_negated,
          g.x_bits,
          [g.z_bits EXCEPT ![q] = Xor(g.z_bits[q], g.x_bits[q])])

\* S with `|=` in place of `^=` on z_bits[q].
SRow_OrAssign(g, q) ==
    LET gx == g.x_bits[q]
        gz == g.z_bits[q]
    IN  MkRow(Xor(g.phase_is_negated, gx /\ gz),
              g.x_bits,
              [g.z_bits EXCEPT ![q] = gz \/ gx])

SRow(g, q) ==
    LET gx == g.x_bits[q]
        gz == g.z_bits[q]
    IN  MkRow(Xor(g.phase_is_negated, gx /\ gz),
              g.x_bits,
              [g.z_bits EXCEPT ![q] = Xor(gz, gx)])

\* Cx without the update of z_bits[control].
CxRow_SkipZUpdate(g, control, target) ==
    LET x1 == [g.x_bits EXCEPT ![target] = Xor(g.x_bits[target], g.x_bits[control])]
        z1 == g.z_bits
        add_phase_flip == x1[control] /\ z1[target]
        anticommutation_parity == Xor(Xor(z1[control], x1[target]), TRUE)
    IN  MkRow(Xor(g.phase_is_negated, add_phase_flip /\ anticommutation_parity),
              x1, z1)

\* Cx without `x_bits[target] ^= x_bits[control]`.
CxRow_SkipXUpdate(g, control, target) ==
    LET x1 == g.x_bits
        z1 == [g.z_bits EXCEPT ![control] = Xor(g.z_bits[control], g.z_bits[target])]
        add_phase_flip == x1[control] /\ z1[target]
        anticommutation_parity == Xor(Xor(z1[control], x1[target]), TRUE)
    IN  MkRow(Xor(g.phase_is_negated, add_phase_flip /\ anticommutation_parity),
              x1, z1)

\* Cx with the parity computed without its `^ true`.
CxRow_ParityWithoutTrue(g, control, target) ==
    LET x1 == [g.x_bits EXCEPT ![target] = Xor(g.x_bits[target], g.x_bits[control])]
        z1 == [g.z_bits EXCEPT ![control] = Xor(g.z_bits[control], g.z_bits[target])]
        add_phase_flip == x1[control] /\ z1[target]
        anticommutation_parity == Xor(z1[control], x1[target])
    IN  MkRow(Xor(g.phase_is_negated, add_phase_flip /\ anticommutation_parity),
              x1, z1)

\* Cx with control and target exchanged in the two XOR assignments.
CxRow_ExchangedIndices(g, control, target) ==
    LET x1 == [g.x_bits EXCEPT ![control] = Xor(g.x_bits[control], g.x_bits[target])]
        z1 == [g.z_bits EXCEPT ![target] = Xor(g.z_bits[target], g.z_bits[control])]
        add_phase_flip == x1[control] /\ z1[target]
        anticommutation_parity == Xor(Xor(z1[control], x1[target]), TRUE)
    IN  MkRow(Xor(g.phase_is_negated, add_phase_flip /\ anticommutation_parity),
              x1, z1)

\* The statements of the Cx arm in program order: the two XOR assignments
\* first, then the phase condition read from the updated row.
CxRow(g, control, target) ==
    LET x1 == [g.x_bits EXCEPT ![target] = Xor(g.x_bits[target], g.x_bits[control])]
        z1 == [g.z_bits EXCEPT ![control] = Xor(g.z_bits[control], g.z_bits[target])]
        add_phase_flip == x1[control] /\ z1[target]
        anticommutation_parity == Xor(Xor(z1[control], x1[target]), TRUE)
    IN  MkRow(Xor(g.phase_is_negated, add_phase_flip /\ anticommutation_parity),
              x1, z1)

\* `bits[q as usize]` on a [bool; N]: the index itself when it is in range;
\* an index out of range panics.
PanicIndex == 0 - 2

\* Indexing that wraps the index into range instead of panicking.
checked_index_Wrapping(q) == q % n

checked_index(q) == IF q < n THEN q ELSE PanicIndex

\* enum Gate
H(q) == [kind |-> "H", a |-> q, b |-> 0]

S(q) == [kind |-> "S", a |-> q, b |-> 0]

Cx(control, target) == [kind |-> "Cx", a |-> control, b |-> target]

GateRow(g, gate) ==
    CASE gate.kind = "H" -> HRow(g, checked_index(gate.a))
      [] gate.kind = "S" -> SRow(g, checked_index(gate.a))
      [] gate.kind = "Cx" -> CxRow(g, checked_index(gate.a), checked_index(gate.b))

\* apply_gate on one of the two row arrays
apply_gate(rows, gate) == [i \in Qubits |-> GateRow(rows[i], gate)]

\* The indices a gate's arm uses on every row.
gate_indices(gate) == IF gate.kind = "Cx" THEN {gate.a, gate.b} ELSE {gate.a}

\* The first statement of the arm, on the first row, evaluates every index
\* of the gate before any bit is written (N >= 1): an index out of range
\* panics there.
apply_gate_panics(gate) == \E j \in gate_indices(gate) : checked_index(j) = PanicIndex

\* An apply_gate call on the whole simulator.
apply_gate_call(stabs, destabs, gate) ==
    IF apply_gate_panics(gate)
    THEN [panicked |-> TRUE, stabilizers |-> stabs, destabilizers |-> destabs]
    ELSE [panicked |-> FALSE, stabilizers |-> apply_gate(stabs, gate),
          destabilizers |-> apply_gate(destabs, gate)]

---------------------------------------------------------------------------
\* Rowsum primitive.

pauli_imaginary_phase_exponent(x1, z1, x2, z2) ==
    CASE (~x1 /\ ~z1) -> 0
      [] (x1 /\ z1)   -> B2I(z2) - B2I(x2)
      [] (x1 /\ ~z1)  -> B2I(z2) * (2 * B2I(x2) - 1)
      [] (~x1 /\ z1)  -> (1 - 2 * B2I(z2)) * B2I(x2)

\* the first loop of rowsum: exponent_sum over j in 0..N, from index j upward
RECURSIVE exponent_sum_from(_, _, _)
exponent_sum_from(row_h, row_i, j) ==
    IF j >= n THEN 0
    ELSE pauli_imaginary_phase_exponent(row_i.x_bits[j], row_i.z_bits[j],
                                        row_h.x_bits[j], row_h.z_bits[j])
         + exponent_sum_from(row_h, row_i, j + 1)

exponent_sum(row_h, row_i) == exponent_sum_from(row_h, row_i, 0)

\* The value the code compares with 0 and 2.
pauli_operator_phase(row_h, row_i) ==
    RustRem(2 * B2I(row_h.phase_is_negated) + 2 * B2I(row_i.phase_is_negated)
            + exponent_sum(row_h, row_i), 4)

\* rowsum: [ok |-> the call returned Ok, row |-> row_h after the call]
rowsum(row_h, row_i) ==
    LET ph == pauli_operator_phase(row_h, row_i)
    IN  IF ph = 0 \/ ph = 2
        THEN [ok |-> TRUE,
              row |-> MkRow(ph = 2,
                            [j \in Qubits |-> Xor(row_h.x_bits[j], row_i.x_bits[j])],
                            [j \in Qubits |-> Xor(row_h.z_bits[j], row_i.z_bits[j])])]
        ELSE [ok |-> FALSE, row |-> row_h]

---------------------------------------------------------------------------
\* Measurement engine.

NoIndex == 0 - 1

XRows(stabs, q) == {i \in Qubits : stabs[i].x_bits[q]}

\* The search returning the last stabilizer row with an X component.
find_x_stabilizer_index_Last(stabs, q) ==
    IF XRows(stabs, q) = {} THEN NoIndex
    ELSE CHOOSE i \in XRows(stabs, q) : \A k \in XRows(stabs, q) : i >= k

\* Option<usize>: the first stabilizer row with an X component, NoIndex for None
find_x_stabilizer_index(stabs, q) ==
    IF XRows(stabs, q) = {} THEN NoIndex
    ELSE CHOOSE i \in XRows(stabs, q) : \A k \in XRows(stabs, q) : i <= k

\* is_deterministic looking at the Z bits.
is_deterministic_ZBits(stabs, q) == \A i \in Qubits : ~stabs[i].z_bits[q]

is_deterministic(stabs, q) == find_x_stabilizer_index(stabs, q) = NoIndex

\* The loop of extract_stabilizer_p_..., from index i upward; `?` returns at
\* the first failing rowsum, with the rows updated so far left as they are.
RECURSIVE extract_from(_, _, _, _, _, _)
extract_from(stabs, destabs, q, p, p_stabilizer, i) ==
    IF i >= n THEN [ok |-> TRUE, stabilizers |-> stabs, destabilizers |-> destabs]
    ELSE IF i = p THEN extract_from(stabs, destabs, q, p, p_stabilizer, i + 1)
    ELSE
      LET r1 == IF stabs[i].x_bits[q] THEN rowsum(stabs[i], p_stabilizer)
                ELSE [ok |-> TRUE, row |-> stabs[i]]
          stabs1 == [stabs EXCEPT ![i] = r1.row]
      IN  IF ~r1.ok
          THEN [ok |-> FALSE, stabilizers |-> stabs, destabilizers |-> destabs]
          ELSE
            LET r2 == IF destabs[i].x_bits[q] THEN rowsum(destabs[p], p_stabilizer)
                      ELSE [ok |-> TRUE, row |-> destabs[p]]
                destabs1 == [destabs EXCEPT ![p] = r2.row]
            IN  IF ~r2.ok
                THEN [ok |-> FALSE, stabilizers |-> stabs1, destabilizers |-> destabs]
                ELSE extract_from(stabs1, destabs1, q, p, p_stabilizer, i + 1)

extract_stabilizer_p(stabs, destabs, q, p) ==
    extract_from(stabs, destabs, q, p, stabs[p], 0)

\* The collapse without `self.destabilizers[p] = old_p_stabilizer`.
collapse_p_stabilizer_KeepDestabilizer(stabs, destabs, p, q, coin) ==
    [ok |-> TRUE,
     value |-> coin,
     stabilizers |-> [stabs EXCEPT ![p] = MkRow(coin, AllFalse, [AllFalse EXCEPT ![q] = TRUE])],
     destabilizers |-> destabs]

\* collapse_p_stabilizer_and_return_measurement_outcome; coin is gen_bool(0.5)
collapse_p_stabilizer(stabs, destabs, p, q, coin) ==
    [ok |-> TRUE,
     value |-> coin,
     stabilizers |-> [stabs EXCEPT ![p] = MkRow(coin, AllFalse, [AllFalse EXCEPT ![q] = TRUE])],
     destabilizers |-> [destabs EXCEPT ![p] = stabs[p]]]

\* The outcome of a measure call: ok/value are the Result, error the message
\* kind, stabilizers/destabilizers the tableau after the call, scratch the
\* scratch row of the deterministic path, draws the coins taken from rand.
Outcome(ok, value, error, stabs, destabs, path, scratch, draws) ==
    [ok |-> ok, value |-> value, error |-> error, stabilizers |-> stabs,
     destabilizers |-> destabs, path |-> path, scratch |-> scratch, draws |-> draws]

\* The nondeterministic path with the coin drawn on entry, before the rows
\* are summed.
nondeterministic_measurement_DrawsFirst(stabs, destabs, q, coin) ==
    LET p == find_x_stabilizer_index(stabs, q)
    IN  IF p = NoIndex
        THEN Outcome(FALSE, FALSE, "no_x_row", stabs, destabs, "nondet", IdentityRow, 1)
        ELSE
          LET e == extract_stabilizer_p(stabs, destabs, q, p)
          IN  IF ~e.ok
              THEN Outcome(FALSE, FALSE, "rowsum", e.stabilizers, e.destabilizers,
                           "nondet", IdentityRow, 1)
              ELSE
                LET c == collapse_p_stabilizer(e.stabilizers, e.destabilizers, p, q, coin)
                IN  Outcome(TRUE, c.value, "none", c.stabilizers, c.destabilizers,
                            "nondet", IdentityRow, 1)

nondeterministic_measurement(stabs, destabs, q, coin) ==
    LET p == find_x_stabilizer_index(stabs, q)
    IN  IF p = NoIndex
        THEN Outcome(FALSE, FALSE, "no_x_row", stabs, destabs, "nondet", IdentityRow, 0)
        ELSE
          LET e == extract_stabilizer_p(stabs, destabs, q, p)
          IN  IF ~e.ok
              THEN Outcome(FALSE, FALSE, "rowsum", e.stabilizers, e.destabilizers,
                           "nondet", IdentityRow, 0)
              ELSE
                LET c == collapse_p_stabilizer(e.stabilizers, e.destabilizers, p, q, coin)
                IN  Outcome(TRUE, c.value, "none", c.stabilizers, c.destabilizers,
                            "nondet", IdentityRow, 1)

\* The loop of determine_deterministic_measurement over the zipped rows, from
\* index i upward: [ok, scratch]
RECURSIVE scratch_from(_, _, _, _, _)
scratch_from(stabs, destabs, q, scratch_row, i) ==
    IF i >= n THEN [ok |-> TRUE, row |-> scratch_row]
    ELSE IF destabs[i].x_bits[q]
         THEN LET r == rowsum(scratch_row, stabs[i])
              IN  IF ~r.ok THEN r
                  ELSE scratch_from(stabs, destabs, q, r.row, i + 1)
         ELSE scratch_from(stabs, destabs, q, scratch_row, i + 1)

\* The deterministic path accumulating the product in the first stabilizer
\* row it sums instead of in a scratch row of its own.
determine_deterministic_measurement_InPlace(stabs, destabs, q) ==
    LET s == scratch_from(stabs, destabs, q, IdentityRow, 0)
        summed == {i \in Qubits : destabs[i].x_bits[q]}
        first == CHOOSE i \in summed : \A k \in summed : i <= k
        stabs1 == IF summed = {} THEN stabs ELSE [stabs EXCEPT ![first] = s.row]
    IN  IF s.ok
        THEN Outcome(TRUE, s.row.phase_is_negated, "none", stabs1, destabs, "det", s.row, 0)
        ELSE Outcome(FALSE, FALSE, "rowsum", stabs1, destabs, "det", s.row, 0)

determine_deterministic_measurement(stabs, destabs, q) ==
    LET s == scratch_from(stabs, destabs, q, IdentityRow, 0)
    IN  IF s.ok
        THEN Outcome(TRUE, s.row.phase_is_negated, "none", stabs, destabs, "det", s.row, 0)
        ELSE Outcome(FALSE, FALSE, "rowsum", stabs, destabs, "det", s.row, 0)

measure(stabs, destabs, q, coin) ==
    IF is_deterministic(stabs, q)
    THEN determine_deterministic_measurement(stabs, destabs, q)
    ELSE nondeterministic_measurement(stabs, destabs, q, coin)

---------------------------------------------------------------------------
\* The tableau invariants I1, I2, I3 (rows as Pauli operators).

\* Two rows commute iff their symplectic product is even.
RECURSIVE anticommuting_positions(_, _, _)
anticommuting_positions(r1, r2, j) ==
    IF j >= n THEN 0
    ELSE B2I(Xor(r1.x_bits[j] /\ r2.z_bits[j], r1.z_bits[j] /\ r2.x_bits[j]))
         + anticommuting_positions(r1, r2, j + 1)

Commute(r1, r2) == anticommuting_positions(r1, r2, 0) % 2 = 0

I1(stabs) == \A i, j \in Qubits : Commute(stabs[i], stabs[j])

I2(destabs) == \A i, j \in Qubits : Commute(destabs[i], destabs[j])

I3(stabs, destabs) ==
    \A i, j \in Qubits : Commute(destabs[i], stabs[j]) <=> (i # j)

TableauInvariants(stabs, destabs) == I1(stabs) /\ I2(destabs) /\ I3(stabs, destabs)

---------------------------------------------------------------------------
\* The single-qubit simulator of lib.rs, as operators on its three flags.

\* struct StabilizerSimulator of lib.rs, without its random source
Single(sign, x, z) ==
    [generator_sign_is_negated |-> sign,
     stabilizer_has_x_component |-> x,
     stabilizer_has_z_component |-> z]

\* H without the sign flip on a Y stabilizer.
single_H_NoSignFlip(sim) ==
    Single(sim.generator_sign_is_negated,
           sim.stabilizer_has_z_component,
           sim.stabilizer_has_x_component)

\* Gate::H: the swap, then the flip read from the swapped flags
single_H(sim) ==
    LET x1 == sim.stabilizer_has_z_component
        z1 == sim.stabilizer_has_x_component
    IN  Single(Xor(sim.generator_sign_is_negated, x1 /\ z1), x1, z1)

\* X flipping the sign whatever the stabilizer is.
single_X_AlwaysFlips(sim) == [sim EXCEPT !.generator_sign_is_negated = ~@]

\* Gate::X
single_X(sim) ==
    IF sim.stabilizer_has_z_component
    THEN [sim EXCEPT !.generator_sign_is_negated = ~@]
    ELSE sim

\* Gate::Z
single_Z(sim) ==
    IF sim.stabilizer_has_x_component
    THEN [sim EXCEPT !.generator_sign_is_negated = ~@]
    ELSE sim

\* Gate::Y: the sign is assigned, not flipped
single_Y(sim) ==
    [sim EXCEPT !.generator_sign_is_negated =
        Xor(sim.stabilizer_has_x_component, sim.stabilizer_has_z_component)]

\* Gate::S
single_S(sim) ==
    Single(Xor(sim.generator_sign_is_negated,
               sim.stabilizer_has_x_component /\ sim.stabilizer_has_z_component),
           sim.stabilizer_has_x_component,
           Xor(sim.stabilizer_has_z_component, sim.stabilizer_has_x_component))

\* The gates with an arm that returns, and those whose arm is unimplemented!()
ImplementedGates == {"H", "X", "Z", "Y", "S"}

UnimplementedGates == {"Si", "Sx", "Sxi", "Sy", "Syi"}

\* apply_gate of lib.rs on an implemented gate
single_apply_gate(sim, gate) ==
    CASE gate = "H" -> single_H(sim)
      [] gate = "X" -> single_X(sim)
      [] gate = "Z" -> single_Z(sim)
      [] gate = "Y" -> single_Y(sim)
      [] gate = "S" -> single_S(sim)

\* measure answering with the sign whatever the stabilizer is.
single_measure_AlwaysSign(sim, coin) ==
    [value |-> sim.generator_sign_is_negated, draws |-> 0]

\* measure of lib.rs; coin is self.rand.gen(). The flags are not written.
single_measure(sim, coin) ==
    IF sim.stabilizer_has_x_component
    THEN [value |-> coin, draws |-> 1]
    ELSE [value |-> sim.generator_sign_is_negated, draws |-> 0]

\* No call made yet on the single-qubit simulator.
NoSingleCall == [op |-> "new", panicked |-> FALSE, value |-> FALSE, coin |-> FALSE,
                 draws |-> 0]

---------------------------------------------------------------------------
\* State of one simulator and the record of the last call made on it.

VARIABLES
    stabilizers,        \* self.stabilizers
    destabilizers,      \* self.destabilizers
    rand,               \* self.rand: the seed it was built from, coins drawn
    prev_stabilizers,   \* self.stabilizers when the last call was entered
    prev_destabilizers, \* self.destabilizers when the last call was entered
    last,               \* the last call: its arguments and what it returned
    steps,              \* number of calls made so far
    row_h,              \* rowsum called on its own: first argument
    row_i,              \* rowsum called on its own: second argument
    rowsum_result,      \* rowsum called on its own: what it returned
    twin_stabilizers,   \* a second simulator built from the same seed:
    twin_destabilizers, \*   its row arrays,
    twin_rand,          \*   its random source,
    twin_last,          \*   and what its last call returned
    test,               \* the test function being run: its name, its calls
    pc,                 \* the next call of the test
    results,            \* the test's HashSet of measured values
    generator_sign_is_negated,   \* the single-qubit simulator of lib.rs:
    stabilizer_has_x_component,  \*   its three flags,
    stabilizer_has_z_component,
    single_rand,        \*   its random source,
    single_last,        \*   what its last call returned,
    single_calls        \*   and the calls made on it so far

sim_vars == <<n, stabilizers, destabilizers, rand, prev_stabilizers,
              prev_destabilizers, last, steps>>

rowsum_vars == <<row_h, row_i, rowsum_result>>

twin_vars == <<twin_stabilizers, twin_destabilizers, twin_rand, twin_last>>

test_vars == <<test, pc, results>>

single_vars == <<generator_sign_is_negated, stabilizer_has_x_component,
                 stabilizer_has_z_component, single_rand, single_last, single_calls>>

vars == <<sim_vars, rowsum_vars, twin_vars, test_vars, single_vars>>

NoCall == [op |-> "new", a |-> 0, b |-> 0, coin |-> FALSE, panicked |-> FALSE,
           ok |-> TRUE, value |-> FALSE, error |-> "none", path |-> "none",
           scratch |-> IdentityRow, draws |-> 0]

NoRowsum == [called |-> FALSE, ok |-> TRUE, row |-> IdentityRow]

NoTest == [name |-> "none", calls |-> <<>>]

\* new with the X and Z arrays of the stabilizer rows swapped.
new_stabilizers_XBits == [i \in Qubits |-> MkRow(FALSE, [AllFalse EXCEPT ![i] = TRUE], AllFalse)]

\* StabilizerSimulator::new: the two row arrays
new_stabilizers == [i \in Qubits |-> MkRow(FALSE, AllFalse, [AllFalse EXCEPT ![i] = TRUE])]

new_destabilizers == [i \in Qubits |-> MkRow(FALSE, [AllFalse EXCEPT ![i] = TRUE], AllFalse)]

\* StdRng::seed_from_u64(seed) with no coin drawn yet. The generator is a
\* function of the seed and of the number of coins drawn from it.
seed_from_u64(seed) == [seed |-> seed, draws |-> 0]

\* self.rand after `draws` calls of gen_bool
rand_after(rnd, draws) == [rnd EXCEPT !.draws = @ + draws]

\* StabilizerSimulator::<size>::new(seed)
new(size, seed) ==
    /\ n = size
    /\ stabilizers = new_stabilizers
    /\ destabilizers = new_destabilizers
    /\ rand = seed_from_u64(seed)
    /\ prev_stabilizers = new_stabilizers
    /\ prev_destabilizers = new_destabilizers
    /\ last = NoCall
    /\ steps = 0

\* StabilizerSimulator::<size>::seeded()
seeded(size) == new(size, 0)

NoRowsumCall ==
    /\ row_h = IdentityRow
    /\ row_i = IdentityRow
    /\ rowsum_result = NoRowsum

NoTwin ==
    /\ twin_stabilizers = new_stabilizers
    /\ twin_destabilizers = new_destabilizers
    /\ twin_rand = rand
    /\ twin_last = NoCall

NoTestRun ==
    /\ test = NoTest
    /\ pc = 1
    /\ results = {}

\* StabilizerSimulator::new(seed) of lib.rs
single_new(seed) ==
    /\ generator_sign_is_negated = FALSE
    /\ stabilizer_has_x_component = FALSE
    /\ stabilizer_has_z_component = TRUE
    /\ single_rand = seed_from_u64(seed)
    /\ single_last = NoSingleCall
    /\ single_calls = <<>>

\* StabilizerSimulator::seeded() of lib.rs
single_seeded == single_new(0)

\* The single-qubit simulator, built and not used.
NoSingle == single_seeded

\* The sizes the simulator is instantiated with.
Sizes == 1 .. N

Init ==
    /\ \E size \in Sizes : seeded(size)
    /\ NoRowsumCall
    /\ NoTwin
    /\ NoTestRun
    /\ NoSingle

\* The record of an apply_gate(gate) call that returned.
GateRecord(gate) == [NoCall EXCEPT !.op = gate.kind, !.a = gate.a, !.b = gate.b]

\* The record of a call that panicked.
PanicRecord(op, a, b) == [NoCall EXCEPT !.op = op, !.a = a, !.b = b, !.panicked = TRUE,
                                        !.ok = FALSE, !.error = "panic"]

\* The record of a measure(q) call whose outcome is m.
MeasureCall(q, coin, m) ==
    [op |-> "measure", a |-> q, b |-> 0,
     coin |-> IF m.draws = 1 THEN coin ELSE FALSE, panicked |-> FALSE,
     ok |-> m.ok, value |-> m.value, error |-> m.error,
     path |-> m.path, scratch |-> m.scratch, draws |-> m.draws]

\* measure(q) indexes x_bits[q] of the first stabilizer row before anything
\* else (find_x_stabilizer_index): an index out of range panics there.
measure_panics(q) == checked_index(q) = PanicIndex

\* A panic unwinds out of the caller: no further call is made on the object.
CanCall == steps < MaxSteps /\ ~last.panicked

idle_vars == <<n, rowsum_vars, twin_vars, test_vars, single_vars>>

ApplyH ==
    \E q \in Qubits :
        /\ CanCall
        /\ stabilizers' = apply_gate_call(stabilizers, destabilizers, H(q)).stabilizers
        /\ destabilizers' = apply_gate_call(stabilizers, destabilizers, H(q)).destabilizers
        /\ rand' = rand
        /\ prev_stabilizers' = stabilizers
        /\ prev_destabilizers' = destabilizers
        /\ last' = GateRecord(H(q))
        /\ steps' = steps + 1
        /\ UNCHANGED idle_vars

ApplyS ==
    \E q \in Qubits :
        /\ CanCall
        /\ stabilizers' = apply_gate_call(stabilizers, destabilizers, S(q)).stabilizers
        /\ destabilizers' = apply_gate_call(stabilizers, destabilizers, S(q)).destabilizers
        /\ rand' = rand
        /\ prev_stabilizers' = stabilizers
        /\ prev_destabilizers' = destabilizers
        /\ last' = GateRecord(S(q))
        /\ steps' = steps + 1
        /\ UNCHANGED idle_vars

\* Callers keep control and target distinct.
ApplyCx ==
    \E c \in Qubits : \E t \in Qubits \ {c} :
        /\ CanCall
        /\ stabilizers' = apply_gate_call(stabilizers, destabilizers, Cx(c, t)).stabilizers
        /\ destabilizers' = apply_gate_call(stabilizers, destabilizers, Cx(c, t)).destabilizers
        /\ rand' = rand
        /\ prev_stabilizers' = stabilizers
        /\ prev_destabilizers' = destabilizers
        /\ last' = GateRecord(Cx(c, t))
        /\ steps' = steps + 1
        /\ UNCHANGED idle_vars

Measure ==
    \E q \in Qubits, coin \in BOOLEAN :
        LET m == measure(stabilizers, destabilizers, checked_index(q), coin)
        IN  /\ CanCall
            /\ stabilizers' = m.stabilizers
            /\ destabilizers' = m.destabilizers
            /\ rand' = rand_after(rand, m.draws)
            /\ prev_stabilizers' = stabilizers
            /\ prev_destabilizers' = destabilizers
            /\ last' = MeasureCall(q, coin, m)
            /\ steps' = steps + 1
            /\ UNCHANGED idle_vars

\* Qubit indices past the end of the arrays (u32 arguments >= N): N itself
\* and the MaxOutOfRange indices after it.
MaxOutOfRange == 0

OutOfRange == n .. (n + MaxOutOfRange)

AnyIndex == Qubits \cup OutOfRange

\* Bound on the number of calls made before a call with an index out of range.
MaxStepsOutOfRange == 2

CanCallOutOfRange == CanCall /\ steps <= MaxStepsOutOfRange

\* The gates with at least one index out of range.
OutOfRangeGates ==
    {H(q) : q \in OutOfRange} \cup {S(q) : q \in OutOfRange}
    \cup {Cx(c, t) : c \in OutOfRange, t \in AnyIndex}
    \cup {Cx(c, t) : c \in AnyIndex, t \in OutOfRange}

\* apply_gate with an index out of range.
ApplyGateOutOfRange ==
    \E gate \in OutOfRangeGates :
        LET g == apply_gate_call(stabilizers, destabilizers, gate)
        IN  /\ CanCallOutOfRange
            /\ stabilizers' = g.stabilizers
            /\ destabilizers' = g.destabilizers
            /\ rand' = rand
            /\ prev_stabilizers' = stabilizers
            /\ prev_destabilizers' = destabilizers
            /\ last' = IF g.panicked THEN PanicRecord(gate.kind, gate.a, gate.b)
                       ELSE GateRecord(gate)
            /\ steps' = steps + 1
            /\ UNCHANGED idle_vars

\* measure with an index out of range.
MeasureOutOfRange ==
    \E q \in OutOfRange, coin \in BOOLEAN :
        LET m == IF measure_panics(q)
                 THEN Outcome(FALSE, FALSE, "panic", stabilizers, destabilizers,
                              "none", IdentityRow, 0)
                 ELSE measure(stabilizers, destabilizers, checked_index(q), coin)
        IN  /\ CanCallOutOfRange
            /\ stabilizers' = m.stabilizers
            /\ destabilizers' = m.destabilizers
            /\ rand' = rand_after(rand, m.draws)
            /\ prev_stabilizers' = stabilizers
            /\ prev_destabilizers' = destabilizers
            /\ last' = IF measure_panics(q) THEN PanicRecord("measure", q, 0)
                       ELSE MeasureCall(q, coin, m)
            /\ steps' = steps + 1
            /\ UNCHANGED idle_vars

Next ==
    \/ ApplyH
    \/ ApplyS
    \/ ApplyCx
    \/ Measure
    \/ ApplyGateOutOfRange
    \/ MeasureOutOfRange

Spec == Init /\ [][Next]_vars

---------------------------------------------------------------------------
\* rowsum on its own, on every pair of rows.

InitRowsum ==
    /\ seeded(N)
    /\ row_h \in TableauGeneratorRow
    /\ row_i \in TableauGeneratorRow
    /\ rowsum_result = NoRowsum
    /\ NoTwin
    /\ NoTestRun
    /\ NoSingle

CallRowsum ==
    /\ ~rowsum_result.called
    /\ rowsum_result' = [called |-> TRUE, ok |-> rowsum(row_h, row_i).ok,
                         row |-> rowsum(row_h, row_i).row]
    /\ UNCHANGED <<row_h, row_i>>
    /\ UNCHANGED <<sim_vars, twin_vars, test_vars, single_vars>>

NextRowsum == CallRowsum

SpecRowsum == InitRowsum /\ [][NextRowsum]_vars

---------------------------------------------------------------------------
\* Two simulators built by new(seed) from the same seed and driven by the
\* same calls.

\* Seeds passed to new (u64).
MaxSeed == 1

Seeds == 0 .. MaxSeed

\* Bound on the number of calls made on the pair.
MaxTwinSteps == 4

\* The largest N the pair is instantiated with.
TwinN == 2

\* A coin that does not depend on the generator's state.
gen_bool_Unseeded(rnd, other_rnd, other_coin, free) == free

\* self.rand.gen_bool(0.5) of a generator in state rnd, when a generator in
\* state other_rnd yields other_coin: the coin is a function of the seed and
\* of the number of coins drawn before it, and otherwise free.
gen_bool(rnd, other_rnd, other_coin, free) ==
    IF rnd = other_rnd THEN other_coin ELSE free

InitTwin ==
    \E size \in 1 .. TwinN, seed \in Seeds :
        /\ new(size, seed)
        /\ twin_stabilizers = new_stabilizers
        /\ twin_destabilizers = new_destabilizers
        /\ twin_rand = seed_from_u64(seed)
        /\ twin_last = NoCall
        /\ NoRowsumCall
        /\ NoTestRun
        /\ NoSingle

InRangeGates ==
    {H(q) : q \in Qubits} \cup {S(q) : q \in Qubits}
    \cup {Cx(c, t) : c \in Qubits, t \in Qubits}

\* The same apply_gate call on both simulators.
TwinApplyGate ==
    \E gate \in {g \in InRangeGates : g.kind = "Cx" => g.a # g.b} :
        /\ CanCall /\ steps < MaxTwinSteps
        /\ stabilizers' = apply_gate_call(stabilizers, destabilizers, gate).stabilizers
        /\ destabilizers' = apply_gate_call(stabilizers, destabilizers, gate).destabilizers
        /\ rand' = rand
        /\ prev_stabilizers' = stabilizers
        /\ prev_destabilizers' = destabilizers
        /\ last' = GateRecord(gate)
        /\ steps' = steps + 1
        /\ twin_stabilizers' =
               apply_gate_call(twin_stabilizers, twin_destabilizers, gate).stabilizers
        /\ twin_destabilizers' =
               apply_gate_call(twin_stabilizers, twin_destabilizers, gate).destabilizers
        /\ twin_rand' = twin_rand
        /\ twin_last' = GateRecord(gate)
        /\ UNCHANGED <<n, rowsum_vars, test_vars, single_vars>>

\* The same measure call on both simulators.
TwinMeasure ==
    \E q \in Qubits, coin \in BOOLEAN, free \in BOOLEAN :
        LET twin_coin == gen_bool(twin_rand, rand, coin, free)
            m == measure(stabilizers, destabilizers, checked_index(q), coin)
            twin_m == measure(twin_stabilizers, twin_destabilizers, checked_index(q), twin_coin)
        IN  /\ CanCall /\ steps < MaxTwinSteps
            /\ stabilizers' = m.stabilizers
            /\ destabilizers' = m.destabilizers
            /\ rand' = rand_after(rand, m.draws)
            /\ prev_stabilizers' = stabilizers
            /\ prev_destabilizers' = destabilizers
            /\ last' = MeasureCall(q, coin, m)
            /\ steps' = steps + 1
            /\ twin_stabilizers' = twin_m.stabilizers
            /\ twin_destabilizers' = twin_m.destabilizers
            /\ twin_rand' = rand_after(twin_rand, twin_m.draws)
            /\ twin_last' = MeasureCall(q, twin_coin, twin_m)
            /\ UNCHANGED <<n, rowsum_vars, test_vars, single_vars>>

NextTwin == TwinApplyGate \/ TwinMeasure

SpecTwin == InitTwin /\ [][NextTwin]_vars

---------------------------------------------------------------------------
\* The test functions, as clients of one simulator built by seeded().

\* A measure(q).unwrap() of a test.
M(q) == [kind |-> "measure", a |-> q, b |-> 0]

\* The three assertions on `results` closing a round, and results.clear().
AssertBoth == [kind |-> "assert_both", a |-> 0, b |-> 0]

\* Bound on the number of measure calls of the basis test.
MaxMeasures == 2

\* for s_reps in 0..4
SReps == 4

\* for _ in 0..10
Reps == 10

\* test_i_measured_in_z_basis, measuring the qubits qs in turn.
test_i_measured_in_z_basis(qs) ==
    [name |-> "test_i_measured_in_z_basis", calls |-> [i \in 1 .. Len(qs) |-> M(qs[i])]]

\* test_h_s_s_h_equals_x, on qubit q.
test_h_s_s_h_equals_x(q) ==
    [name |-> "test_h_s_s_h_equals_x", calls |-> <<H(q), S(q), S(q), H(q), M(q)>>]

test_cnot_when_control_is_zero ==
    [name |-> "test_cnot_when_control_is_zero", calls |-> <<Cx(0, 1), M(0), M(1)>>]

test_cnot_when_control_is_one ==
    [name |-> "test_cnot_when_control_is_one",
     calls |-> <<H(0), S(0), S(0), H(0), Cx(0, 1), M(0), M(1)>>]

RECURSIVE Repeat(_, _)
Repeat(calls, times) == IF times = 0 THEN <<>> ELSE calls \o Repeat(calls, times - 1)

\* One pass of the inner loop: H(0), s_reps times S(0), measure(0).
Trial(s_reps) == <<H(0)>> \o Repeat(<<S(0)>>, s_reps) \o <<M(0)>>

RECURSIVE Rounds(_)
Rounds(s_reps) ==
    IF s_reps >= SReps THEN <<>>
    ELSE Repeat(Trial(s_reps), Reps) \o <<AssertBoth>> \o Rounds(s_reps + 1)

test_nondeterministic_measurement ==
    [name |-> "test_nondeterministic_measurement", calls |-> Rounds(0)]

\* The tests a simulator of the current size can run.
Tests ==
    {test_i_measured_in_z_basis(qs) :
        qs \in UNION {[1 .. len -> Qubits] : len \in 1 .. MaxMeasures}}
    \cup {test_h_s_s_h_equals_x(q) : q \in Qubits}
    \cup (IF n = 2
          THEN {test_cnot_when_control_is_zero, test_cnot_when_control_is_one,
                test_nondeterministic_measurement}
          ELSE {})

InitTests ==
    /\ \E size \in Sizes : seeded(size)
    /\ test \in Tests
    /\ pc = 1
    /\ results = {}
    /\ NoRowsumCall
    /\ NoTwin
    /\ NoSingle

\* The test goes on: calls are left, and no unwrap or assert has panicked.
TestRunning == pc <= Len(test.calls) /\ last.ok /\ ~last.panicked

TestApplyGate ==
    /\ TestRunning
    /\ test.calls[pc].kind \in {"H", "S", "Cx"}
    /\ stabilizers' = apply_gate_call(stabilizers, destabilizers, test.calls[pc]).stabilizers
    /\ destabilizers' = apply_gate_call(stabilizers, destabilizers, test.calls[pc]).destabilizers
    /\ rand' = rand
    /\ prev_stabilizers' = stabilizers
    /\ prev_destabilizers' = destabilizers
    /\ last' = GateRecord(test.calls[pc])
    /\ steps' = steps + 1
    /\ pc' = pc + 1
    /\ UNCHANGED <<n, test, results, rowsum_vars, twin_vars, single_vars>>

TestMeasure ==
    \E coin \in BOOLEAN :
        LET q == test.calls[pc].a
            m == measure(stabilizers, destabilizers, checked_index(q), coin)
        IN  /\ TestRunning
            /\ test.calls[pc].kind = "measure"
            /\ stabilizers' = m.stabilizers
            /\ destabilizers' = m.destabilizers
            /\ rand' = rand_after(rand, m.draws)
            /\ prev_stabilizers' = stabilizers
            /\ prev_destabilizers' = destabilizers
            /\ last' = MeasureCall(q, coin, m)
            /\ steps' = steps + 1
            /\ pc' = pc + 1
            /\ results' = IF test.name = "test_nondeterministic_measurement" /\ m.ok
                          THEN results \cup {m.value}
                          ELSE results
            /\ UNCHANGED <<n, test, rowsum_vars, twin_vars, single_vars>>

TestAssert ==
    /\ TestRunning
    /\ test.calls[pc].kind = "assert_both"
    /\ IF results = {TRUE, FALSE}
       THEN /\ results' = {}
            /\ last' = last
       ELSE /\ results' = results
            /\ last' = PanicRecord("assert_both", 0, 0)
    /\ pc' = pc + 1
    /\ UNCHANGED <<n, stabilizers, destabilizers, rand, prev_stabilizers,
                   prev_destabilizers, steps, test, rowsum_vars, twin_vars, single_vars>>

NextTests == TestApplyGate \/ TestMeasure \/ TestAssert

SpecTests == InitTests /\ [][NextTests]_vars

---------------------------------------------------------------------------
\* The single-qubit simulator of lib.rs driven by a client.

\* Bound on the number of calls made on the single-qubit simulator.
MaxSingleSteps == 4

\* The three flags as one record.
SingleState ==
    Single(generator_sign_is_negated, stabilizer_has_x_component,
           stabilizer_has_z_component)

InitSingle ==
    /\ seeded(1)
    /\ NoRowsumCall
    /\ NoTwin
    /\ NoTestRun
    /\ single_seeded

\* An unimplemented!() panics: no further call is made on the object.
SingleCanCall == Len(single_calls) < MaxSingleSteps /\ ~single_last.panicked

\* The record of an apply_gate call of lib.rs that returned.
SingleGateRecord(gate) == [NoSingleCall EXCEPT !.op = gate]

\* The record of a measure call of lib.rs whose outcome is m.
SingleMeasureRecord(coin, m) ==
    [op |-> "measure", panicked |-> FALSE, value |-> m.value,
     coin |-> IF m.draws = 1 THEN coin ELSE FALSE, draws |-> m.draws]

SingleApplyGate ==
    \E gate \in ImplementedGates :
        LET after == single_apply_gate(SingleState, gate)
        IN  /\ SingleCanCall
            /\ generator_sign_is_negated' = after.generator_sign_is_negated
            /\ stabilizer_has_x_component' = after.stabilizer_has_x_component
            /\ stabilizer_has_z_component' = after.stabilizer_has_z_component
            /\ single_rand' = single_rand
            /\ single_last' = SingleGateRecord(gate)
            /\ single_calls' = Append(single_calls, gate)
            /\ UNCHANGED <<sim_vars, rowsum_vars, twin_vars, test_vars>>

\* apply_gate on Si, Sx, Sxi, Sy or Syi
SingleApplyUnimplemented ==
    \E gate \in UnimplementedGates :
        /\ SingleCanCall
        /\ single_last' = [NoSingleCall EXCEPT !.op = gate, !.panicked = TRUE]
        /\ single_calls' = Append(single_calls, gate)
        /\ UNCHANGED <<generator_sign_is_negated, stabilizer_has_x_component,
                       stabilizer_has_z_component, single_rand>>
        /\ UNCHANGED <<sim_vars, rowsum_vars, twin_vars, test_vars>>

SingleMeasure ==
    \E coin \in BOOLEAN :
        LET m == single_measure(SingleState, coin)
        IN  /\ SingleCanCall
            /\ single_rand' = rand_after(single_rand, m.draws)
            /\ single_last' = SingleMeasureRecord(coin, m)
            /\ single_calls' = Append(single_calls, "measure")
            /\ UNCHANGED <<generator_sign_is_negated, stabilizer_has_x_component,
                           stabilizer_has_z_component>>
            /\ UNCHANGED <<sim_vars, rowsum_vars, twin_vars, test_vars>>

NextSingle == SingleApplyGate \/ SingleApplyUnimplemented \/ SingleMeasure

SpecSingle == InitSingle /\ [][NextSingle]_vars

---------------------------------------------------------------------------
\* Vocabulary of the properties.

IsGateCall == last.op \in {"H", "S", "Cx"} /\ ~last.panicked

IsMeasureCall == last.op = "measure" /\ ~last.panicked

\* The 2N rows before and after the last call, indexed alike.
RowIds == {"s", "d"} \X Qubits

PrevRow(id) == IF id[1] = "s" THEN prev_stabilizers[id[2]] ELSE prev_destabilizers[id[2]]

CurRow(id) == IF id[1] = "s" THEN stabilizers[id[2]] ELSE destabilizers[id[2]]

TableauUnchanged ==
    stabilizers = prev_stabilizers /\ destabilizers = prev_destabilizers

\* C1: every measure call returns Ok.
C1_MeasureAlwaysOk == IsMeasureCall => last.ok

\* C3: every measure call leaves I1, I2 and I3 holding.
C3_MeasurePreservesInvariants ==
    IsMeasureCall => TableauInvariants(stabilizers, destabilizers)

\* C4: after measure(q) returned Ok(b), measure(q) called again at once
\* returns Ok(b) whatever the coin.
C4_RemeasureSame ==
    (IsMeasureCall /\ last.ok) =>
        \A coin \in BOOLEAN :
            LET m == measure(stabilizers, destabilizers, last.a, coin)
            IN  m.ok /\ m.value = last.value

\* +Z or -Z on qubit q and the identity elsewhere.
IsZOn(row, q) ==
    /\ row.x_bits = AllFalse
    /\ row.z_bits = [AllFalse EXCEPT ![q] = TRUE]

\* C6: whenever no stabilizer row has an X component at q, the scratch row
\* of the deterministic path ends as +Z or -Z on q, and measure(q) returns
\* Ok with its phase bit. Stated of the reachable tableaux in which I1, I2
\* and I3 hold, the premise the claim's argument rests on.
C6_DeterministicScratchIsZ ==
    \A q \in Qubits :
        (TableauInvariants(stabilizers, destabilizers) /\ is_deterministic(stabilizers, q)) =>
            \A coin \in BOOLEAN :
                LET m == measure(stabilizers, destabilizers, q, coin)
                IN  /\ IsZOn(m.scratch, q)
                    /\ m.ok
                    /\ m.value = m.scratch.phase_is_negated

\* C7: a measure(q) call made when no stabilizer row has x_bits[q] set
\* leaves all 2N rows as they were, whether it returns Ok or Err: of the
\* last call made, and of the call measure(q) made next on the tableau
\* reached.
C7_DeterministicMeasureFrame ==
    /\ (IsMeasureCall /\ is_deterministic(prev_stabilizers, last.a)) => TableauUnchanged
    /\ \A q \in Qubits :
        is_deterministic(stabilizers, q) =>
            \A coin \in BOOLEAN :
                LET m == measure(stabilizers, destabilizers, q, coin)
                IN  m.stabilizers = stabilizers /\ m.destabilizers = destabilizers

\* C2: a gate call made on a tableau in which I1, I2 and I3 hold leaves
\* all three holding.
C2_GatePreservesInvariants ==
    (IsGateCall /\ TableauInvariants(prev_stabilizers, prev_destabilizers))
        => TableauInvariants(stabilizers, destabilizers)

\* A Cx call on a tableau with the invariants that changed both row arrays.
C2_Witness ==
    /\ IsGateCall /\ last.op = "Cx"
    /\ TableauInvariants(prev_stabilizers, prev_destabilizers)
    /\ stabilizers # prev_stabilizers
    /\ destabilizers # prev_destabilizers

\* The exponent of i of the product of the two rows, reduced into 0..3.
TextbookResidue(h, i) ==
    (2 * B2I(h.phase_is_negated) + 2 * B2I(i.phase_is_negated) + exponent_sum(h, i)) % 4

\* C5: rowsum returns Ok exactly when the residue is 0 or 2 and Err exactly
\* when it is 1 or 3; on Ok the phase is negated iff the residue is 2 and
\* the bits are the XOR of the two rows' bits.
C5_RowsumTextbook ==
    rowsum_result.called =>
        LET r == TextbookResidue(row_h, row_i)
        IN  /\ rowsum_result.ok <=> (r \in {0, 2})
            /\ (~rowsum_result.ok) <=> (r \in {1, 3})
            /\ rowsum_result.ok =>
                /\ rowsum_result.row.phase_is_negated = (r = 2)
                /\ \A j \in Qubits :
                    /\ rowsum_result.row.x_bits[j] = Xor(row_h.x_bits[j], row_i.x_bits[j])
                    /\ rowsum_result.row.z_bits[j] = Xor(row_h.z_bits[j], row_i.z_bits[j])

\* The phase condition of Cx on the bits a row has before the update.
CxFlipsPhase(g, control, target) ==
    /\ g.x_bits[control]
    /\ g.z_bits[target]
    /\ Xor(Xor(g.z_bits[control], g.x_bits[target]), TRUE)

\* C8: Cx(control, target) sets x_bits[target] ^= x_bits[control] and
\* z_bits[control] ^= z_bits[target] in every row, and flips the phase iff
\* the condition holds of the bits the row had before the update.
C8_CxRule ==
    (IsGateCall /\ last.op = "Cx") =>
        \A id \in RowIds :
            LET g == PrevRow(id)
                r == CurRow(id)
            IN  /\ r.x_bits[last.b] = Xor(g.x_bits[last.b], g.x_bits[last.a])
                /\ r.z_bits[last.a] = Xor(g.z_bits[last.a], g.z_bits[last.b])
                /\ (r.phase_is_negated # g.phase_is_negated) <=> CxFlipsPhase(g, last.a, last.b)

\* A Cx call on a tableau with a row whose phase it flips and a row with X
\* on the control and Z on the target whose phase it keeps.
C8_Witness ==
    /\ IsGateCall /\ last.op = "Cx"
    /\ \E id \in RowIds : CxFlipsPhase(PrevRow(id), last.a, last.b)
    /\ \E id \in RowIds :
        /\ PrevRow(id).x_bits[last.a]
        /\ PrevRow(id).z_bits[last.b]
        /\ ~CxFlipsPhase(PrevRow(id), last.a, last.b)

\* C9: H(q) swaps x_bits[q] with z_bits[q] in every row and flips the phase
\* iff both were set before the swap.
C9_HRule ==
    (IsGateCall /\ last.op = "H") =>
        \A id \in RowIds :
            LET g == PrevRow(id)
                r == CurRow(id)
            IN  /\ r.x_bits[last.a] = g.z_bits[last.a]
                /\ r.z_bits[last.a] = g.x_bits[last.a]
                /\ (r.phase_is_negated # g.phase_is_negated)
                       <=> (g.x_bits[last.a] /\ g.z_bits[last.a])

\* An H(q) call on a tableau with a row that has Y at q and a row that has
\* X alone at q.
C9_Witness ==
    /\ IsGateCall /\ last.op = "H"
    /\ \E id \in RowIds : PrevRow(id).x_bits[last.a] /\ PrevRow(id).z_bits[last.a]
    /\ \E id \in RowIds : PrevRow(id).x_bits[last.a] /\ ~PrevRow(id).z_bits[last.a]

\* C10: each S(q) flips the phase iff x_bits[q] and z_bits[q] were both set
\* and then sets z_bits[q] ^= x_bits[q]; a second S(q) right after the first
\* leaves, in every row, the bits as they were before the first and the
\* phase flipped exactly in the rows that have x_bits[q] set.
C10_TwoSIsZ ==
    (IsGateCall /\ last.op = "S") =>
        LET q == last.a
            stabs2 == apply_gate(stabilizers, S(q))
            destabs2 == apply_gate(destabilizers, S(q))
            Row2(id) == IF id[1] = "s" THEN stabs2[id[2]] ELSE destabs2[id[2]]
        IN  \A id \in RowIds :
                LET g == PrevRow(id)
                    r == CurRow(id)
                    r2 == Row2(id)
                IN  /\ (r.phase_is_negated # g.phase_is_negated)
                           <=> (g.x_bits[q] /\ g.z_bits[q])
                    /\ r.x_bits = g.x_bits
                    /\ r.z_bits = [g.z_bits EXCEPT ![q] = Xor(g.z_bits[q], g.x_bits[q])]
                    /\ r2.x_bits = g.x_bits
                    /\ r2.z_bits = g.z_bits
                    /\ (r2.phase_is_negated # g.phase_is_negated) <=> g.x_bits[q]

\* An S(q) call on a tableau with a row that has Y at q, a row that has X
\* alone at q and a row with no X at q.
C10_Witness ==
    /\ IsGateCall /\ last.op = "S"
    /\ \E id \in RowIds : PrevRow(id).x_bits[last.a] /\ PrevRow(id).z_bits[last.a]
    /\ \E id \in RowIds : PrevRow(id).x_bits[last.a] /\ ~PrevRow(id).z_bits[last.a]
    /\ \E id \in RowIds : ~PrevRow(id).x_bits[last.a]

\* A deterministic measure(q) call that summed at least two stabilizer rows
\* into the scratch row.
C7_Witness ==
    /\ IsMeasureCall
    /\ last.path = "det"
    /\ is_deterministic(prev_stabilizers, last.a)
    /\ Cardinality({i \in Qubits : prev_destabilizers[i].x_bits[last.a]}) >= 2

\* A tableau on which the deterministic path of measure(q) returns Err (the
\* Err case of C7).
C7_ErrCase ==
    \E q \in Qubits :
        /\ is_deterministic(stabilizers, q)
        /\ ~measure(stabilizers, destabilizers, q, FALSE).ok

\* A measure(q) call that took the nondeterministic path, drew the coin
\* TRUE and returned Ok(TRUE).
C4_Witness ==
    /\ IsMeasureCall
    /\ last.ok
    /\ last.path = "nondet"
    /\ last.value

---------------------------------------------------------------------------
\* Construction.

\* C11: right after new(seed), for every seed (seeded() is new(0)),
\* stabilizer row i has only z_bits[i] set, destabilizer row i has only
\* x_bits[i] set, and no phase is negated.
C11_NewTableau ==
    last.op = "new" =>
        \A i \in Qubits :
            /\ ~stabilizers[i].phase_is_negated
            /\ ~destabilizers[i].phase_is_negated
            /\ \A j \in Qubits :
                /\ stabilizers[i].z_bits[j] = (i = j)
                /\ ~stabilizers[i].x_bits[j]
                /\ destabilizers[i].x_bits[j] = (i = j)
                /\ ~destabilizers[i].z_bits[j]

\* A simulator just built from a seed other than seeded()'s.
C11_Witness ==
    last.op = "new" /\ steps = 0 /\ n = TwinN /\ rand.seed # 0 /\ rand.draws = 0

---------------------------------------------------------------------------
\* The scenarios of the tests.

TestDone == pc > Len(test.calls) /\ last.ok /\ ~last.panicked

\* C12: on a fresh simulator of any size, with no gate applied, every
\* measure call of a sequence of measure calls returns Ok(false), for every
\* qubit and every coin.
C12_BasisConsistency ==
    (test.name = "test_i_measured_in_z_basis" /\ IsMeasureCall) =>
        (last.ok /\ ~last.value)

\* Two different qubits of the largest simulator measured one after the other.
C12_Witness ==
    /\ test.name = "test_i_measured_in_z_basis"
    /\ TestDone
    /\ n = N
    /\ Len(test.calls) = MaxMeasures
    /\ test.calls[1].a # test.calls[2].a
    /\ IsMeasureCall
    /\ ~last.value

\* C13: on a fresh simulator of any size, H(q); S(q); S(q); H(q) followed
\* by measure(q) returns Ok(true), for every qubit q and every coin.
C13_HSSHMeasuresTrue ==
    (test.name = "test_h_s_s_h_equals_x" /\ IsMeasureCall) =>
        (last.ok /\ last.value)

C13_Witness ==
    /\ test.name = "test_h_s_s_h_equals_x"
    /\ TestDone
    /\ n = N
    /\ IsMeasureCall
    /\ last.a = N - 1
    /\ last.value

\* The classical bit the CNOT tests prepare on qubit 0.
ControlBit == test.name = "test_cnot_when_control_is_one"

IsCnotTest ==
    test.name \in {"test_cnot_when_control_is_zero", "test_cnot_when_control_is_one"}

\* C14: on a fresh 2-qubit simulator with qubit 0 prepared in the basis
\* state b (nothing for false, H(0); S(0); S(0); H(0) for true), after
\* Cx(0,1) both measure(0) and measure(1) return Ok(b), for every coin.
C14_CnotCopiesControl ==
    (IsCnotTest /\ IsMeasureCall) => (last.ok /\ last.value = ControlBit)

\* The control-is-one test after its measure(1).
C14_Witness ==
    /\ IsCnotTest
    /\ ControlBit
    /\ n = 2
    /\ TestDone
    /\ IsMeasureCall
    /\ last.a = 1
    /\ last.value

\* k applications of S(q) to one of the row arrays.
RECURSIVE apply_s_times(_, _, _)
apply_s_times(rows, q, k) ==
    IF k = 0 THEN rows ELSE apply_s_times(apply_gate(rows, S(q)), q, k - 1)

\* Qubit 0 is in a definite Z eigenstate: the simulator is fresh, or the
\* last call was a measure(0) that returned Ok.
DefiniteZOnQubit0 ==
    \/ last.op = "new"
    \/ IsMeasureCall /\ last.a = 0 /\ last.ok

\* C15: on a 2-qubit simulator whose qubit 0 is in a definite Z eigenstate
\* (fresh, or right after a measure(0)), after H(0) and k in 0..3
\* applications of S(0), measure(0) takes the nondeterministic path and
\* returns Ok(c), c the coin drawn.
C15_SuperpositionMeasuresCoin ==
    (n = 2 /\ DefiniteZOnQubit0 /\ TableauInvariants(stabilizers, destabilizers)) =>
        \A k \in 0 .. (SReps - 1), coin \in BOOLEAN :
            LET m == measure(apply_s_times(apply_gate(stabilizers, H(0)), 0, k),
                             apply_s_times(apply_gate(destabilizers, H(0)), 0, k),
                             0, coin)
            IN  m.path = "nondet" /\ m.ok /\ m.value = coin /\ m.draws = 1

\* The loop of test_nondeterministic_measurement alone: every measure(0) of
\* the test takes the nondeterministic path and returns the coin.
C15_TestMeasuresCoin ==
    (test.name = "test_nondeterministic_measurement" /\ IsMeasureCall) =>
        (last.path = "nondet" /\ last.ok /\ last.value = last.coin /\ last.draws = 1)

\* The test ran to its end: every round saw both outcomes.
C15_TestPasses ==
    test.name = "test_nondeterministic_measurement" /\ TestDone

---------------------------------------------------------------------------
\* The random source.

\* The coins a call takes from self.rand, by what the call was and returned.
CoinsOwed(call) ==
    IF call.op = "measure" /\ call.path = "nondet" /\ call.ok THEN 1 ELSE 0

\* C16: apply_gate draws nothing from the random source, a measure call on
\* the deterministic path draws nothing, a measure call returning Ok on the
\* nondeterministic path draws exactly one coin, and a measure call
\* returning Err draws none.
C16_CoinsOnlyInCollapse ==
    [][(IsGateCall' \/ IsMeasureCall') =>
          /\ rand'.seed = rand.seed
          /\ rand'.draws = rand.draws + CoinsOwed(last')]_vars

\* A second coin drawn, after a gate, a deterministic measure and a failed
\* measure drew none.
C16_Witness ==
    /\ IsMeasureCall
    /\ last.path = "nondet"
    /\ last.ok
    /\ rand.draws = 2
    /\ steps = MaxSteps

\* A measure call that returned Err on the nondeterministic path.
C16_ErrCase == IsMeasureCall /\ last.path = "nondet" /\ ~last.ok /\ steps = MaxSteps

---------------------------------------------------------------------------
\* The nondeterministic path.

IsNondetOk == IsMeasureCall /\ last.path = "nondet" /\ last.ok

\* The stabilizer rows that had x_bits[q] set when the last call was entered.
PrevXRows == {i \in Qubits : prev_stabilizers[i].x_bits[last.a]}

\* C18: after measure(q) returned Ok on the nondeterministic path, with p
\* the lowest index of a stabilizer row that had x_bits[q] set before the
\* call: destabilizer p is stabilizer p as it was before the call, stabilizer
\* p has only z_bits[q] set and the drawn coin as its phase, the outcome is
\* that phase bit, and no stabilizer row has x_bits[q] set.
C18_CollapsedRows ==
    IsNondetOk =>
        \A p \in PrevXRows :
            (\A k \in PrevXRows : p <= k) =>
                /\ destabilizers[p] = prev_stabilizers[p]
                /\ stabilizers[p].phase_is_negated = last.coin
                /\ \A j \in Qubits :
                    /\ ~stabilizers[p].x_bits[j]
                    /\ stabilizers[p].z_bits[j] = (j = last.a)
                /\ last.value = stabilizers[p].phase_is_negated
                /\ \A i \in Qubits : ~stabilizers[i].x_bits[last.a]

\* A collapse with two stabilizer rows carrying X on the measured qubit, the
\* coin being true.
C18_Witness ==
    /\ IsNondetOk
    /\ \E i, k \in PrevXRows : i # k
    /\ last.coin
    /\ last.value

\* The rowsum of the CHP paper: the exponent of i taken modulo 4 in 0..3,
\* residue 0 giving phase +, residue 2 giving phase -.
TextbookRowsum(h, i) ==
    MkRow(TextbookResidue(h, i) = 2,
          [j \in Qubits |-> Xor(h.x_bits[j], i.x_bits[j])],
          [j \in Qubits |-> Xor(h.z_bits[j], i.z_bits[j])])

\* The measurement of the CHP paper on a qubit q some stabilizer has X on:
\* with p the first such stabilizer, rowsum stabilizer p into every other
\* row, stabilizer or destabilizer, that has X on q; then destabilizer p
\* becomes the old stabilizer p and stabilizer p becomes Z on q with the
\* coin as its phase; the outcome is the coin.
TextbookMeasure(stabs, destabs, q, coin) ==
    LET p == CHOOSE i \in XRows(stabs, q) : \A k \in XRows(stabs, q) : i <= k
        stabs1 == [i \in Qubits |->
                      IF i # p /\ stabs[i].x_bits[q]
                      THEN TextbookRowsum(stabs[i], stabs[p]) ELSE stabs[i]]
        destabs1 == [i \in Qubits |->
                        IF i = p THEN stabs[p]
                        ELSE IF destabs[i].x_bits[q]
                             THEN TextbookRowsum(destabs[i], stabs[p]) ELSE destabs[i]]
    IN  [value |-> coin,
         stabilizers |-> [stabs1 EXCEPT ![p] =
                             MkRow(coin, AllFalse, [AllFalse EXCEPT ![q] = TRUE])],
         destabilizers |-> destabs1]

\* C19: from every reachable tableau on which I1-I3 hold, for every qubit
\* some stabilizer has X on and every coin, measure returns the outcome of
\* the textbook measurement and leaves the tableau the textbook measurement
\* leaves.
C19_MatchesTextbook ==
    TableauInvariants(stabilizers, destabilizers) =>
        \A q \in Qubits, coin \in BOOLEAN :
            ~is_deterministic(stabilizers, q) =>
                LET m == measure(stabilizers, destabilizers, q, coin)
                    t == TextbookMeasure(stabilizers, destabilizers, q, coin)
                IN  /\ m.ok
                    /\ m.value = t.value
                    /\ m.stabilizers = t.stabilizers
                    /\ m.destabilizers = t.destabilizers

\* The same comparison on the calls where measure returned Ok.
C19_MatchesTextbookWhenOk ==
    TableauInvariants(stabilizers, destabilizers) =>
        \A q \in Qubits, coin \in BOOLEAN :
            ~is_deterministic(stabilizers, q) =>
                LET m == measure(stabilizers, destabilizers, q, coin)
                    t == TextbookMeasure(stabilizers, destabilizers, q, coin)
                IN  m.ok =>
                    /\ m.value = t.value
                    /\ m.stabilizers = t.stabilizers
                    /\ m.destabilizers = t.destabilizers

---------------------------------------------------------------------------
\* Indices out of range.

\* The last call was made with a qubit index >= N.
IsOutOfRangeCall ==
    /\ last.op \in {"H", "S", "Cx", "measure"}
    /\ \/ last.a >= n
       \/ last.op = "Cx" /\ last.b >= n

\* C20: an apply_gate or measure call with a qubit index >= N, a Cx with
\* only one of its two indices out of range included, panics: it returns no
\* result, does not act on the index taken modulo N, and leaves every row
\* of the tableau and the random source as they were.
C20_OutOfRangePanics ==
    [][IsOutOfRangeCall' =>
          /\ last'.panicked
          /\ ~last'.ok
          /\ stabilizers' = stabilizers
          /\ destabilizers' = destabilizers
          /\ rand' = rand]_vars

\* A Cx whose control is in range and whose target is not, panicking on a
\* tableau that gates and a collapse have changed.
C20_Witness ==
    /\ IsOutOfRangeCall
    /\ last.panicked
    /\ last.op = "Cx"
    /\ last.a < n
    /\ last.b >= n
    /\ n = N
    /\ rand.draws = 1
    /\ stabilizers # new_stabilizers
    /\ TableauUnchanged

\* A measure call out of range.
C20_MeasureCase == IsOutOfRangeCall /\ last.panicked /\ last.op = "measure"

---------------------------------------------------------------------------
\* The single-qubit simulator of lib.rs.

\* C21: from the initial state of the single-qubit simulator, H; X; H and
\* then measure() returns false, and H; Z; H and then measure() returns
\* true, for every coin.
C21_HXH_HZH ==
    /\ single_calls = <<"H", "X", "H", "measure">> => ~single_last.value
    /\ single_calls = <<"H", "Z", "H", "measure">> => single_last.value

\* The measure() closing H; Z; H.
C21_Witness ==
    /\ single_calls = <<"H", "Z", "H", "measure">>
    /\ single_last.op = "measure"
    /\ single_last.value
    /\ single_last.draws = 0

\* The measure() closing H; X; H.
C21_HXHCase ==
    /\ single_calls = <<"H", "X", "H", "measure">>
    /\ ~single_last.value
    /\ single_last.draws = 0

\* C22: from the initial state of the single-qubit simulator, Z; H; Z and
\* then measure() returns true, and Y; H; Y and then measure() returns
\* true, for every coin (the assertions of test_h_z_h_equals_x and
\* test_h_y_h_equals_y).
C22_ZHZ_YHY ==
    /\ single_calls = <<"Z", "H", "Z", "measure">> => single_last.value
    /\ single_calls = <<"Y", "H", "Y", "measure">> => single_last.value

\* What the code does on these two sequences: the stabilizer has an X
\* component, so measure() returns the value drawn from the random source.
C22_MeasureReturnsCoin ==
    single_calls \in {<<"Z", "H", "Z", "measure">>, <<"Y", "H", "Y", "measure">>}
        => /\ single_last.draws = 1
           /\ single_last.value = single_last.coin

\* test_h_y_h_equals_y with a random source whose first value is false.
C22_YHYCase ==
    /\ single_calls = <<"Y", "H", "Y", "measure">>
    /\ single_last.draws = 1
    /\ ~single_last.value

---------------------------------------------------------------------------
\* The single-qubit simulator of lib.rs next to the tableau simulator of one
\* qubit: the same H and S gates go to both, then both measure.

\* Bound on the number of gates applied to the pair before the measurement.
MaxSubsumedGates == 6

InitSubsumed ==
    /\ seeded(1)
    /\ NoRowsumCall
    /\ NoTwin
    /\ NoTestRun
    /\ single_seeded

\* The gate of the tableau simulator that answers to Gate::H or Gate::S of lib.rs.
TableauGate(gate) == IF gate = "H" THEN H(0) ELSE S(0)

\* No measurement was made yet.
OnlyGates == \A k \in 1 .. Len(single_calls) : single_calls[k] \in {"H", "S"}

SubsumedApplyGate ==
    \E gate \in {"H", "S"} :
        LET after == single_apply_gate(SingleState, gate)
            call == apply_gate_call(stabilizers, destabilizers, TableauGate(gate))
        IN  /\ OnlyGates
            /\ steps < MaxSubsumedGates
            /\ stabilizers' = call.stabilizers
            /\ destabilizers' = call.destabilizers
            /\ rand' = rand
            /\ prev_stabilizers' = stabilizers
            /\ prev_destabilizers' = destabilizers
            /\ last' = GateRecord(TableauGate(gate))
            /\ steps' = steps + 1
            /\ generator_sign_is_negated' = after.generator_sign_is_negated
            /\ stabilizer_has_x_component' = after.stabilizer_has_x_component
            /\ stabilizer_has_z_component' = after.stabilizer_has_z_component
            /\ single_rand' = single_rand
            /\ single_last' = SingleGateRecord(gate)
            /\ single_calls' = Append(single_calls, gate)
            /\ UNCHANGED <<n, rowsum_vars, twin_vars, test_vars>>

\* Each simulator owns its random source: the two coins are independent.
SubsumedMeasure ==
    \E coin \in BOOLEAN, single_coin \in BOOLEAN :
        LET m == measure(stabilizers, destabilizers, checked_index(0), coin)
            sm == single_measure(SingleState, single_coin)
        IN  /\ OnlyGates
            /\ stabilizers' = m.stabilizers
            /\ destabilizers' = m.destabilizers
            /\ rand' = rand_after(rand, m.draws)
            /\ prev_stabilizers' = stabilizers
            /\ prev_destabilizers' = destabilizers
            /\ last' = MeasureCall(0, coin, m)
            /\ steps' = steps + 1
            /\ single_rand' = rand_after(single_rand, sm.draws)
            /\ single_last' = SingleMeasureRecord(single_coin, sm)
            /\ single_calls' = Append(single_calls, "measure")
            /\ UNCHANGED <<generator_sign_is_negated, stabilizer_has_x_component,
                           stabilizer_has_z_component>>
            /\ UNCHANGED <<n, rowsum_vars, twin_vars, test_vars>>

NextSubsumed == SubsumedApplyGate \/ SubsumedMeasure

SpecSubsumed == InitSubsumed /\ [][NextSubsumed]_vars

\* Stabilizer row 0 of the tableau equals the three flags of lib.rs.
RowEqualsFlags ==
    /\ stabilizers[0].phase_is_negated = generator_sign_is_negated
    /\ stabilizers[0].x_bits[0] = stabilizer_has_x_component
    /\ stabilizers[0].z_bits[0] = stabilizer_has_z_component

\* The measurement that closes a sequence of H and S gates on the pair.
PairMeasured ==
    /\ Len(single_calls) > 0
    /\ single_calls[Len(single_calls)] = "measure"
    /\ last.op = "measure"

\* C23: after any sequence of H and S gates applied to both simulators from
\* their initial states, stabilizer row 0 of the 1-qubit tableau equals the
\* flags of the single-qubit simulator, and a measurement then made on both
\* is deterministic in one iff it is deterministic in the other, with the
\* same value when deterministic.
C23_Subsumed ==
    /\ OnlyGates => RowEqualsFlags
    /\ PairMeasured =>
           /\ last.ok
           /\ (last.path = "det") <=> (single_last.draws = 0)
           /\ (last.draws = 0) <=> (single_last.draws = 0)
           /\ last.path = "det" => last.value = single_last.value

\* A deterministic measurement of the pair in the state stabilized by -Z
\* (H; S; S; H), both returning true.
C23_Witness ==
    /\ PairMeasured
    /\ single_calls = <<"H", "S", "S", "H", "measure">>
    /\ last.path = "det"
    /\ single_last.draws = 0
    /\ last.value
    /\ single_last.value

\* A measurement of the pair in a state stabilized by -Y (H; S; S; S): both
\* draw a coin.
C23_RandomCase ==
    /\ PairMeasured
    /\ single_calls = <<"H", "S", "S", "S", "measure">>
    /\ last.path = "nondet"
    /\ single_last.draws = 1
    /\ last.draws = 1

---------------------------------------------------------------------------
\* apply_gate on arbitrary rows: the same gate called again and again on a
\* tableau whose rows need not be reachable from new().

\* Bound on the number of times the gate is called.
MaxRepeats == 4

\* The row with the X and Z parts of g exchanged and the opposite phase.
Exchanged(g) == MkRow(~g.phase_is_negated, g.z_bits, g.x_bits)

\* A tableau of the given size and an arbitrary row g: every stabilizer row
\* holds g and every destabilizer row holds Exchanged(g), so each array
\* meets every row of that size. apply_gate treats the 2N rows one by one,
\* each by the same statements.
InitGates ==
    \E size \in Sizes :
        /\ n = size
        /\ \E g \in TableauGeneratorRow :
            /\ stabilizers = [k \in Qubits |-> g]
            /\ destabilizers = [k \in Qubits |-> Exchanged(g)]
        /\ rand = seed_from_u64(0)
        /\ prev_stabilizers = stabilizers
        /\ prev_destabilizers = destabilizers
        /\ last = NoCall
        /\ steps = 0
        /\ NoRowsumCall
        /\ NoTwin
        /\ NoTestRun
        /\ NoSingle

\* The gates with indices in range, control and target distinct.
DistinctGates == {gate \in InRangeGates : gate.kind = "Cx" => gate.a # gate.b}

\* The first call picks the gate; the calls after it repeat it.
\* prev_stabilizers and prev_destabilizers keep the rows the first call found.
ApplyGateAgain ==
    \E gate \in DistinctGates :
        LET call == apply_gate_call(stabilizers, destabilizers, gate)
        IN  /\ steps < MaxRepeats
            /\ steps = 0 \/ last = GateRecord(gate)
            /\ stabilizers' = call.stabilizers
            /\ destabilizers' = call.destabilizers
            /\ last' = GateRecord(gate)
            /\ steps' = steps + 1
            /\ UNCHANGED <<rand, prev_stabilizers, prev_destabilizers>>
            /\ UNCHANGED idle_vars

NextGates == ApplyGateAgain

SpecGates == InitGates /\ [][NextGates]_vars

\* C24: for every tableau, applying H(q) twice, Cx(c,t) with c # t twice,
\* or S(q) four times restores the phase, x_bits and z_bits of every row.
C24_GatesUndone ==
    /\ (IsGateCall /\ last.op \in {"H", "Cx"} /\ steps = 2) => TableauUnchanged
    /\ (IsGateCall /\ last.op = "S" /\ steps = 4) => TableauUnchanged

\* S(q) called four times on rows with an X component at q, on three qubits.
C24_Witness ==
    /\ IsGateCall /\ last.op = "S" /\ steps = 4
    /\ n = N
    /\ prev_stabilizers[0].x_bits[last.a]
    /\ prev_destabilizers[0].x_bits[last.a]
    /\ prev_destabilizers[0].z_bits[last.a]
    /\ TableauUnchanged

\* Cx(c,t) called twice on rows it changes in x_bits[t] and z_bits[c].
C24_CxCase ==
    /\ IsGateCall /\ last.op = "Cx" /\ steps = 2
    /\ n = N
    /\ prev_stabilizers[0].x_bits[last.a]
    /\ prev_stabilizers[0].z_bits[last.b]
    /\ TableauUnchanged

\* H(q) called twice on rows with both components at q.
C24_HCase ==
    /\ IsGateCall /\ last.op = "H" /\ steps = 2
    /\ prev_stabilizers[0].x_bits[last.a]
    /\ prev_stabilizers[0].z_bits[last.a]
    /\ TableauUnchanged

\* C25: in each of the 2N rows, apply_gate(H(q)) and apply_gate(S(q))
\* change at most the phase, x_bits[q] and z_bits[q], and
\* apply_gate(Cx(c,t)) with c # t changes at most the phase, x_bits[t] and
\* z_bits[c], never z_bits[t] or x_bits[c]; the bits at every other qubit
\* stay as they were. Stated of the first call made on an arbitrary tableau.
C25_GateFrame ==
    (IsGateCall /\ steps = 1) =>
        \A id \in RowIds : \A j \in Qubits :
            /\ (last.op \in {"H", "S"} /\ j # last.a) =>
                   /\ CurRow(id).x_bits[j] = PrevRow(id).x_bits[j]
                   /\ CurRow(id).z_bits[j] = PrevRow(id).z_bits[j]
            /\ (last.op = "Cx" /\ j # last.b) =>
                   CurRow(id).x_bits[j] = PrevRow(id).x_bits[j]
            /\ (last.op = "Cx" /\ j # last.a) =>
                   CurRow(id).z_bits[j] = PrevRow(id).z_bits[j]

\* A Cx(c,t) call on three qubits that changed x_bits[t] and z_bits[c] of a
\* row holding bits at the third qubit.
C25_Witness ==
    /\ IsGateCall /\ last.op = "Cx" /\ steps = 1
    /\ n = N
    /\ last.a # last.b
    /\ stabilizers[0].x_bits[last.b] # prev_stabilizers[0].x_bits[last.b]
    /\ stabilizers[0].z_bits[last.a] # prev_stabilizers[0].z_bits[last.a]
    /\ \E j \in Qubits \ {last.a, last.b} :
        prev_stabilizers[0].x_bits[j] /\ prev_stabilizers[0].z_bits[j]

\* An S(q) call that changed the phase and z_bits[q].
C25_SCase ==
    /\ IsGateCall /\ last.op = "S" /\ steps = 1
    /\ stabilizers[0].phase_is_negated # prev_stabilizers[0].phase_is_negated
    /\ stabilizers[0].z_bits[last.a] # prev_stabilizers[0].z_bits[last.a]

\* An H(q) call that exchanged two different bits at q.
C25_HCase ==
    /\ IsGateCall /\ last.op = "H" /\ steps = 1
    /\ stabilizers[0].x_bits[last.a] # prev_stabilizers[0].x_bits[last.a]
    /\ stabilizers[0].z_bits[last.a] # prev_stabilizers[0].z_bits[last.a]

====
